---- MODULE Spec2Model ----
(***************************************************************************)
(* A model of the cointegration analysis engine of ibtest                  *)
(* (src/src/ibtest/analysis/cointegration.py): CointegrationAnalyzer with  *)
(* test_cointegration, test_stationarity, analyze_pairs,                   *)
(* filter_cointegrated_pairs, create_summary_report, get_spread_statistics *)
(* and print_results.                                                      *)
(*                                                                         *)
(* Numbers.  p-values and significance levels are floats in the program;   *)
(* the model keeps them on an integer grid 0..MaxP, which preserves the    *)
(* only operations the engine applies to them: the comparison "<", the     *)
(* ordering used by sort, and Python truthiness (0.0 is falsy).            *)
(*                                                                         *)
(* Series.  A pandas Series is modelled by its index (a set of integer     *)
(* row labels, kept ascending) and the set of labels whose value is NaN.   *)
(* The numeric values themselves only feed the statistics backend          *)
(* (statsmodels coint), whose answer is an input of the model: a p-value   *)
(* on the grid, or an exception.  Only the spread handed to                *)
(* get_spread_statistics is modelled by its values, small integers.        *)
(***************************************************************************)
EXTENDS Integers, Sequences, FiniteSets, TLC

VARIABLES
    significance_level, \* CointegrationAnalyzer.significance_level
    test_level,         \* history: significance_level when analyze_pairs ran
    pc,                 \* "idle", "loop" (inside analyze_pairs), "done",
                        \* "filtered", "single" (after a direct test)
    price_data,         \* the DataFrame given to analyze_pairs
    pair_idx,           \* position of the for loop in combinations(symbols, 2)
    results,            \* the local list `results` of analyze_pairs
    stdout,             \* lines printed by analyze_pairs' except branch
    attempted,          \* history: the test_cointegration calls of the batch
    result_list,        \* the list the caller holds and hands to the filter
    outcome,            \* what a direct test_cointegration call gave its caller
    threshold_arg,      \* p_value_threshold of the last filter call
    filtered,           \* return value of the last filter call
    min_observations,   \* argument min_observations of analyze_pairs
    warnings,           \* what analyze_pairs gave to warnings.warn
    given_data,         \* history: price_data as the caller passed it
    earlier,            \* history: what an earlier analyze_pairs call on
                        \* the same data attempted and returned
    include_all_arg,    \* include_all of the last create_summary_report call
    summary,            \* the DataFrame create_summary_report returned
    spread_arg,         \* spread_series of the result given to
                        \* get_spread_statistics
    stats,              \* what get_spread_statistics returned
    print_args,         \* show_all and max_pairs of the last print_results
    printed,            \* the lines print_results printed
    fetch_args,         \* start_ms and end_ms of the fetch_klines call
    current_start,      \* fetch_klines' local current_start
    all_data,           \* fetch_klines' local all_data
    requests,           \* history: the startTime of each request and the
                        \* response it got
    klines_df,          \* the DataFrame fetch_klines returned
    aligned_args,       \* symbols, fetched data and fill_method of the
                        \* get_aligned_prices call
    aligned_df,         \* the DataFrame get_aligned_prices returned
    validate_args,      \* symbols and server response of validate_symbols
    validated           \* the pair of lists validate_symbols returned

batchVars == <<min_observations, warnings, given_data, earlier>>

reportVars == <<include_all_arg, summary, spread_arg, stats, print_args,
                printed>>

vars == <<significance_level, test_level, pc, price_data, pair_idx, results,
          stdout, attempted, result_list, outcome, threshold_arg, filtered,
          min_observations, warnings, given_data, earlier, include_all_arg,
          summary, spread_arg, stats, print_args, printed, fetch_args,
          current_start, all_data, requests, klines_df, aligned_args,
          aligned_df, validate_args, validated>>

dataVars == <<fetch_args, current_start, all_data, requests, klines_df,
              aligned_args, aligned_df, validate_args, validated>>

engineVars == <<significance_level, test_level, price_data, pair_idx,
                results, stdout, attempted, result_list, outcome,
                threshold_arg, filtered>>

---------------------------------------------------------------------------
(* Bounds of the model and constants of the program.                       *)

MaxCols == 3        \* columns of a price matrix: 0..MaxCols
MaxP == 1           \* p-values and significance levels on the grid 0..MaxP
MaxList == 3        \* length of a caller-built result list
MaxSpreadLen == 4   \* length of a caller-built spread
MaxSpreadValue == 2 \* spread values: 0..MaxSpreadValue
MaxTime == 3        \* timestamps in milliseconds: 0..MaxTime
MaxBatch == 2       \* klines in one response of the server
MaxRequests == 3    \* requests followed in one fetch_klines call
MaxSymbols == 2     \* length of a list of symbols given to validate_symbols
MinObs == 10        \* the observation floor of test_cointegration
MinObsStationarity == 10        \* the observation floor of test_stationarity
DefaultMinObservations == 50    \* default of analyze_pairs' min_observations

PValues == 0..MaxP
SigLevels == 0..MaxP
None == "None"

\* No direct test_cointegration call has been made.
NoCall == [call |-> None]

\* The optional argument p_value_threshold: None, or a number on the grid
\* (one step beyond the largest p-value included).
NoThreshold == [is_none |-> TRUE, value |-> 0]
Given(t) == [is_none |-> FALSE, value |-> t]
Thresholds == {NoThreshold} \cup { Given(t) : t \in 0..(MaxP + 1) }

\* Column names, in matrix order; deliberately not in alphabetical order.
SymbolNames == <<"ETH", "BTC", "SOL", "ADA", "XRP", "BNB">>

\* Row labels of a price matrix.
NumRows == MinObs
Rows == 1..NumRows

\* The NaN patterns a column of the matrix may have: complete, first row
\* missing, last row missing, entirely missing.
NanPatterns == {{}, {1}, {NumRows}, Rows}

PriceMatrices ==
    UNION {
        { [columns |-> SubSeq(SymbolNames, 1, n), index |-> Rows, nan |-> m]
            : m \in [1..n -> NanPatterns] }
        : n \in 0..MaxCols }

EmptyFrame == [columns |-> <<>>, index |-> {}, nan |-> <<>>]

\* price_data[symbol]: the column as a Series.
ColumnPos(df, symbol) ==
    CHOOSE i \in 1..Len(df.columns) : df.columns[i] = symbol

Column(df, symbol) ==
    [index |-> df.index, nan |-> df.nan[ColumnPos(df, symbol)]]

\* The series a caller may pass to test_cointegration directly: indexes of
\* MinObs - 2 to MinObs + 1 rows, starting at label 1 or 2, with or without
\* a NaN at label 2.
DirectSeries ==
    { [index |-> lo..hi, nan |-> n] :
        lo \in {1, 2}, hi \in {MinObs - 1, MinObs, MinObs + 1},
        n \in {{}, {2}} }

DirectNames == {"Series1", "Series2"}

\* The values a caller may give to min_observations: the row count of the
\* matrix itself, and the default.
MinObservationsArgs == {NumRows, DefaultMinObservations}

\* The statistic behind a p-value: coint derives the p-value from the
\* statistic alone and monotonically, a smaller statistic giving a smaller
\* p-value.
CointStat(p) == p - (MaxP + 1)

\* The critical values coint returns, for the 1%, 5% and 10% levels.
BackendCriticalValues == <<-3, -2, -1>>

\* What statsmodels' coint (and the OLS fit after it) may do for a pair
\* that passed the size check: return statistic, p-value, critical values
\* and the slope of the fit, or raise.
BackendOutcomes ==
    { [raises |-> FALSE, p_value |-> p, coint_stat |-> CointStat(p),
       critical_values |-> BackendCriticalValues, hedge_ratio |-> 1]
        : p \in PValues }
        \cup { [raises |-> TRUE, p_value |-> 0, coint_stat |-> 0,
                 critical_values |-> BackendCriticalValues,
                 hedge_ratio |-> 0] }

---------------------------------------------------------------------------
(* test_cointegration                                                      *)

\* {symbol1: series1, symbol2: series2}: a dict literal; for equal keys the
\* later value wins.
FrameDict(series1, series2, symbol1, symbol2) ==
    (symbol2 :> series2) @@ (symbol1 :> series1)

\* pd.DataFrame(dict).dropna(): the union of the indexes, minus every row
\* in which some column is absent or NaN.
AlignedRows(series1, series2, symbol1, symbol2) ==
    LET frame == FrameDict(series1, series2, symbol1, symbol2)
        union == UNION { frame[c].index : c \in DOMAIN frame }
    IN  { r \in union :
            \A c \in DOMAIN frame :
                r \in frame[c].index /\ r \notin frame[c].nan }

\* y1 = aligned_data[symbol1]: the series the test takes as the dependent
\* one.
DependentSeries(series1, series2, symbol1, symbol2) ==
    FrameDict(series1, series2, symbol1, symbol2)[symbol1]

\* y2 = aligned_data[symbol2]: the series the test takes as the regressor.
RegressorSeries(series1, series2, symbol1, symbol2) ==
    FrameDict(series1, series2, symbol1, symbol2)[symbol2]

\* spread_series of a result: None (the constructor's default), or a
\* Series known by its index.
NoSpread == [is_none |-> TRUE, index |-> {}]

SpreadOver(index) == [is_none |-> FALSE, index |-> index]

CointegrationResult(symbol1, symbol2, cointegration_stat, p_value, critical_values, is_cointegrated, hedge_ratio, spread_series) ==
    [symbol1 |-> symbol1, symbol2 |-> symbol2,
     cointegration_stat |-> cointegration_stat, p_value |-> p_value,
     critical_values |-> critical_values,
     is_cointegrated |-> is_cointegrated, hedge_ratio |-> hedge_ratio,
     spread_series |-> spread_series]

\* crit_vals: the three critical values under the keys "1%", "5%", "10%".
CritVals(critical_values) ==
    [k \in {"1%", "5%", "10%"} |->
        CASE k = "1%" -> critical_values[1]
          [] k = "5%" -> critical_values[2]
          [] k = "10%" -> critical_values[3]]

\* Variant in which the rows with a missing value are dropped from the
\* caller's series itself.
InputNansDropped(series) ==
    [index |-> series.index \ series.nan, nan |-> {}]

\* A series the caller passed, after the call: the frame of line 100 is
\* built from copies, dropna returns a new frame, and .values is only
\* read.
InputAfterTest(series) == series

Raised(error, message) ==
    [raised |-> TRUE, error |-> error, message |-> message]

Returned(value) ==
    [raised |-> FALSE, value |-> value]

InsufficientMessage == "Insufficient data points for cointegration test"

\* Variant with a non-strict decision: is_cointegrated = p_value <= level.
test_cointegration_le(level, series1, series2, symbol1, symbol2, backend) ==
    LET aligned == AlignedRows(series1, series2, symbol1, symbol2)
    IN  IF Cardinality(aligned) < MinObs
        THEN Raised("ValueError", InsufficientMessage)
        ELSE IF backend.raises
        THEN Raised("Exception", "backend")
        ELSE Returned(CointegrationResult(
                 symbol1, symbol2, backend.coint_stat, backend.p_value,
                 CritVals(backend.critical_values),
                 backend.p_value <= level, backend.hedge_ratio,
                 SpreadOver(aligned)))

test_cointegration(level, series1, series2, symbol1, symbol2, backend) ==
    LET aligned == AlignedRows(series1, series2, symbol1, symbol2)
    IN  IF Cardinality(aligned) < MinObs
        THEN Raised("ValueError", InsufficientMessage)
        ELSE IF backend.raises
        THEN Raised("Exception", "backend")
        ELSE Returned(CointegrationResult(
                 symbol1, symbol2, backend.coint_stat, backend.p_value,
                 CritVals(backend.critical_values),
                 backend.p_value < level, backend.hedge_ratio,
                 SpreadOver(aligned)))

---------------------------------------------------------------------------
(* test_stationarity                                                       *)

\* What statsmodels' adfuller may do for a series that passed the size
\* check: return statistic, p-value, selected lag and critical values, or
\* raise.  The observation count it reports is the number of values left
\* after the lagged differences: len - used_lag - 1.
AdfOutcomes ==
    { [raises |-> FALSE, p_value |-> p, adf_stat |-> CointStat(p),
       used_lag |-> l, critical_values |-> CritVals(BackendCriticalValues)]
        : p \in PValues, l \in {0, 1} }
        \cup { [raises |-> TRUE, p_value |-> 0, adf_stat |-> 0, used_lag |-> 0,
                 critical_values |-> CritVals(BackendCriticalValues)] }

\* Series.dropna(): a new series without the NaN entries.
dropna(series) == [index |-> series.index \ series.nan, nan |-> {}]

StationarityMessage == "Insufficient data points for stationarity test"

\* Variant that counts the rows of the series before dropping the NaNs.
test_stationarity_raw(level, series, symbol, backend) ==
    LET series_clean == dropna(series)
    IN  IF Cardinality(series.index) < MinObsStationarity
        THEN Raised("ValueError", StationarityMessage)
        ELSE IF backend.raises
        THEN Raised("Exception", "backend")
        ELSE Returned(
                 [symbol |-> symbol,
                  adf_statistic |-> backend.adf_stat,
                  p_value |-> backend.p_value,
                  critical_values |-> backend.critical_values,
                  is_stationary |-> backend.p_value < level,
                  used_lag |-> backend.used_lag,
                  n_observations |->
                      Cardinality(series_clean.index) - backend.used_lag - 1])

test_stationarity(level, series, symbol, backend) ==
    LET series_clean == dropna(series)
    IN  IF Cardinality(series_clean.index) < MinObsStationarity
        THEN Raised("ValueError", StationarityMessage)
        ELSE IF backend.raises
        THEN Raised("Exception", "backend")
        ELSE Returned(
                 [symbol |-> symbol,
                  adf_statistic |-> backend.adf_stat,
                  p_value |-> backend.p_value,
                  critical_values |-> backend.critical_values,
                  is_stationary |-> backend.p_value < level,
                  used_lag |-> backend.used_lag,
                  n_observations |->
                      Cardinality(series_clean.index) - backend.used_lag - 1])

\* A caller invokes test_stationarity on a series of its own.
TestStationarityDirect ==
    /\ pc = "idle"
    /\ \E s \in DirectSeries, backend \in AdfOutcomes :
        outcome' = [series1 |-> s, symbol1 |-> "Series",
                    call |-> test_stationarity(significance_level, s,
                                               "Series", backend)]
    /\ pc' = "stationarity"
    /\ UNCHANGED <<significance_level, test_level, price_data, pair_idx,
                   results, stdout, attempted, result_list, threshold_arg,
                   filtered>>
    /\ UNCHANGED batchVars
    /\ UNCHANGED dataVars
    /\ UNCHANGED reportVars

---------------------------------------------------------------------------
(* analyze_pairs                                                           *)

\* Variant enumerating ordered pairs (itertools.permutations(symbols, 2)).
permutations(symbols) ==
    LET n == Len(symbols)
    IN  [k \in 1..(n * (n - 1)) |->
            LET i == ((k - 1) \div (n - 1)) + 1
                r == ((k - 1) % (n - 1)) + 1
                j == IF r < i THEN r ELSE r + 1
            IN  <<symbols[i], symbols[j]>>]

\* itertools.combinations(symbols, 2): pairs by position, first index outer.
RECURSIVE combinations(_)
combinations(symbols) ==
    IF Len(symbols) < 2
    THEN <<>>
    ELSE [j \in 1..(Len(symbols) - 1) |-> <<symbols[1], symbols[j + 1]>>]
            \o combinations(Tail(symbols))

Pairs == combinations(price_data.columns)

\* The body of the try block for one pair.
TryPair(level, df, pair, backend) ==
    test_cointegration(level, Column(df, pair[1]), Column(df, pair[2]),
                       pair[1], pair[2], backend)

\* Variant that puts a new result at the front of the list.
ResultsPrepended(res, r) ==
    IF r.raised THEN res ELSE <<r.value>> \o res

\* results.append(result) on success; print and continue on any exception.
ResultsAfter(res, r) ==
    IF r.raised THEN res ELSE Append(res, r.value)

StdoutAfter(out, pair, r) ==
    IF r.raised
    THEN Append(out, [symbol1 |-> pair[1], symbol2 |-> pair[2],
                      reason |-> r.message])
    ELSE out

\* Variant in which the first exception ends the loop.
LoopBreaksOnError(r) == ~r.raised

\* Whether the loop goes on to the next pair after this one.
LoopContinues(r) == TRUE

\* Variant that gives up on a matrix with too few rows: the loop over the
\* pairs is skipped and the empty list returned.
LoopSkippedWhenShort(df, min_obs) ==
    IF Cardinality(df.index) < min_obs
    THEN Len(combinations(df.columns)) + 1
    ELSE 1

\* Where the loop over the pairs starts once the row count has been
\* compared with min_observations: at the first pair, whatever the outcome.
LoopStart(df, min_obs) == 1

\* warnings.warn(...) when len(price_data) < min_observations.
WarningsAfter(df, min_obs) ==
    IF Cardinality(df.index) < min_obs
    THEN <<[rows |-> Cardinality(df.index), min_observations |-> min_obs]>>
    ELSE <<>>

\* A call starts from fresh locals whatever was analysed before, so the
\* model follows one call per engine.
\* Variant in which the list of results outlives the call (an attribute
\* of the engine that is never emptied).
ResultsCarriedOver(previous) == previous

\* `results = []`: every call starts with a new, empty list.
FreshResults(previous) == <<>>

\* No earlier call.
NoEarlier == [ran |-> FALSE, attempted |-> <<>>, list |-> <<>>, level |-> 0]

\* price_data after the test of one pair: the two columns were handed to
\* test_cointegration.
PriceDataAfterPair(df, pair) ==
    [df EXCEPT !.nan =
        [c \in DOMAIN df.nan |->
            IF df.columns[c] \in {pair[1], pair[2]}
            THEN InputAfterTest(Column(df, df.columns[c])).nan
            ELSE df.nan[c]]]

AnalyzeStart ==
    /\ pc = "idle"
    /\ \E df \in PriceMatrices, min_obs \in MinObservationsArgs :
          /\ price_data' = df
          /\ given_data' = df
          /\ min_observations' = min_obs
          /\ warnings' = WarningsAfter(df, min_obs)
          /\ pair_idx' = LoopStart(df, min_obs)
    /\ pc' = "loop"
    /\ results' = FreshResults(results)
    /\ stdout' = <<>>
    /\ attempted' = <<>>
    /\ result_list' = <<>>
    /\ outcome' = NoCall
    /\ threshold_arg' = NoThreshold
    /\ filtered' = <<>>
    /\ test_level' = significance_level
    /\ UNCHANGED <<significance_level, earlier>>
    /\ UNCHANGED reportVars
    /\ UNCHANGED dataVars

\* A second call on the same matrix, by a caller that kept the list of the
\* first call.
AnalyzeAgain ==
    /\ pc = "done"
    /\ ~earlier.ran
    /\ earlier' = [ran |-> TRUE, attempted |-> attempted,
                   list |-> result_list, level |-> test_level]
    /\ warnings' = WarningsAfter(price_data, min_observations)
    /\ pair_idx' = LoopStart(price_data, min_observations)
    /\ pc' = "loop"
    /\ results' = FreshResults(results)
    /\ stdout' = <<>>
    /\ attempted' = <<>>
    /\ result_list' = <<>>
    /\ test_level' = significance_level
    /\ UNCHANGED <<significance_level, price_data, given_data,
                   min_observations, outcome, threshold_arg, filtered>>
    /\ UNCHANGED reportVars
    /\ UNCHANGED dataVars

\* The statistics are a function of the data: on a pair an earlier call has
\* tested, coint and OLS give what they gave then.
SameAnswer(first, backend) ==
    IF first.raised
    THEN first.message = InsufficientMessage \/ backend.raises
    ELSE ~backend.raises /\ backend.p_value = first.value.p_value

AnswersFor(k) ==
    IF earlier.ran
    THEN { b \in BackendOutcomes : SameAnswer(earlier.attempted[k].call, b) }
    ELSE BackendOutcomes

AnalyzePair ==
    /\ pc = "loop"
    /\ pair_idx <= Len(Pairs)
    /\ \E backend \in AnswersFor(pair_idx) :
        LET pair == Pairs[pair_idx]
            r == TryPair(significance_level, price_data, pair, backend)
        IN  /\ results' = ResultsAfter(results, r)
            /\ stdout' = StdoutAfter(stdout, pair, r)
            /\ attempted' = Append(attempted,
                   [symbol1 |-> pair[1], symbol2 |-> pair[2],
                    raised |-> r.raised, call |-> r])
            /\ pair_idx' = IF LoopContinues(r) THEN pair_idx + 1
                           ELSE Len(Pairs) + 1
            /\ price_data' = PriceDataAfterPair(price_data, pair)
    /\ UNCHANGED <<significance_level, test_level, pc,
                   result_list, outcome, threshold_arg, filtered>>
    /\ UNCHANGED batchVars
    /\ UNCHANGED dataVars
    /\ UNCHANGED reportVars

\* `return results`: the list of results is the whole return value; the
\* skipped pairs were printed, and none of them is handed to the caller.
SkippedGivenToCaller == <<>>

AnalyzeReturn ==
    /\ pc = "loop"
    /\ pair_idx > Len(Pairs)
    /\ pc' = "done"
    /\ result_list' = results
    /\ UNCHANGED <<significance_level, test_level, price_data, pair_idx,
                   results, stdout, attempted, outcome, threshold_arg,
                   filtered>>
    /\ UNCHANGED batchVars
    /\ UNCHANGED dataVars
    /\ UNCHANGED reportVars

\* A caller invokes test_cointegration on two series of its own.
TestPairDirect ==
    /\ pc = "idle"
    /\ \E s1 \in DirectSeries, s2 \in DirectSeries,
          n1 \in DirectNames, n2 \in DirectNames,
          backend \in BackendOutcomes :
        outcome' = [series1 |-> s1, series2 |-> s2,
                    symbol1 |-> n1, symbol2 |-> n2,
                    call |-> test_cointegration(significance_level,
                                                s1, s2, n1, n2, backend),
                    series1_after |-> InputAfterTest(s1),
                    series2_after |-> InputAfterTest(s2),
                    aligned_data |-> AlignedRows(s1, s2, n1, n2),
                    y1 |-> DependentSeries(s1, s2, n1, n2),
                    y2 |-> RegressorSeries(s1, s2, n1, n2)]
    /\ pc' = "single"
    /\ UNCHANGED <<significance_level, test_level, price_data, pair_idx,
                   results, stdout, attempted, result_list, threshold_arg,
                   filtered>>
    /\ UNCHANGED batchVars
    /\ UNCHANGED dataVars
    /\ UNCHANGED reportVars

---------------------------------------------------------------------------
(* filter_cointegrated_pairs                                               *)

\* Python truthiness of the optional float: None and 0.0 are falsy.
Truthy(arg) == ~arg.is_none /\ arg.value # 0

\* threshold = p_value_threshold or self.significance_level
EffectiveThreshold(level, p_value_threshold) ==
    IF Truthy(p_value_threshold) THEN p_value_threshold.value ELSE level

\* Variants of the comprehension's condition: reading the stored flag, and
\* a non-strict comparison.
KeepsByFlag(result, threshold) == result.is_cointegrated

KeepsInclusive(result, threshold) == result.p_value <= threshold

\* The condition of the list comprehension.
Keeps(result, threshold) == result.p_value < threshold

\* Variant of the insertion that goes in front of equal keys (not stable).
InsertBeforeEqual(sorted, x) ==
    LET k == Cardinality({ i \in 1..Len(sorted) :
                             sorted[i].p_value < x.p_value })
    IN  SubSeq(sorted, 1, k) \o <<x>> \o SubSeq(sorted, k + 1, Len(sorted))

\* list.sort(key=...) is stable: an element goes behind every element
\* whose key is not larger.
InsertByPValue(sorted, x) ==
    LET k == Cardinality({ i \in 1..Len(sorted) :
                             sorted[i].p_value <= x.p_value })
    IN  SubSeq(sorted, 1, k) \o <<x>> \o SubSeq(sorted, k + 1, Len(sorted))

RECURSIVE SortByPValue(_)
SortByPValue(s) ==
    IF s = <<>>
    THEN <<>>
    ELSE InsertByPValue(SortByPValue(SubSeq(s, 1, Len(s) - 1)), s[Len(s)])

filter_cointegrated_pairs(level, res, p_value_threshold) ==
    LET threshold == EffectiveThreshold(level, p_value_threshold)
        Test(r) == Keeps(r, threshold)
    IN  SortByPValue(SelectSeq(res, Test))

\* Variant in which the sort is applied to the argument itself
\* (results.sort(key=...)).
ResultsSortedInPlace(res) == SortByPValue(res)

\* The caller's list after a filter call: the comprehension builds a new
\* list and the sort is applied to that one, the argument is only read.
ResultsAfterFilter(res) == res

FilterCall(t) ==
    /\ pc = "done"
    /\ filtered' = filter_cointegrated_pairs(significance_level, result_list, t)
    /\ result_list' = ResultsAfterFilter(result_list)
    /\ threshold_arg' = t
    /\ pc' = "filtered"
    /\ UNCHANGED <<significance_level, test_level, price_data, pair_idx,
                   results, stdout, attempted, outcome>>
    /\ UNCHANGED batchVars
    /\ UNCHANGED dataVars
    /\ UNCHANGED reportVars

\* significance_level is a plain public attribute: a caller may assign it.
SetSignificanceLevel ==
    /\ pc = "done"
    /\ \E s \in SigLevels \ {significance_level} : significance_level' = s
    /\ UNCHANGED <<test_level, pc, price_data, pair_idx, results, stdout,
                   attempted, result_list, outcome, threshold_arg, filtered>>
    /\ UNCHANGED batchVars
    /\ UNCHANGED dataVars
    /\ UNCHANGED reportVars

---------------------------------------------------------------------------
(* create_summary_report                                                   *)

SummaryColumns ==
    <<"Symbol1", "Symbol2", "P_Value", "Cointegration_Stat", "Hedge_Ratio",
      "Is_Cointegrated", "Critical_1%", "Critical_5%", "Critical_10%">>

\* The dict appended to summary_data for one result.
SummaryRow(result) ==
    ("Symbol1" :> result.symbol1) @@ ("Symbol2" :> result.symbol2)
        @@ ("P_Value" :> result.p_value)
        @@ ("Cointegration_Stat" :> result.cointegration_stat)
        @@ ("Hedge_Ratio" :> result.hedge_ratio)
        @@ ("Is_Cointegrated" :> result.is_cointegrated)
        @@ ("Critical_1%" :> result.critical_values["1%"])
        @@ ("Critical_5%" :> result.critical_values["5%"])
        @@ ("Critical_10%" :> result.critical_values["10%"])

\* pd.DataFrame(): no rows and no columns.
EmptyDataFrame == [columns |-> <<>>, rows |-> <<>>]

\* pd.DataFrame(summary_data): the columns are the keys of the dicts.
DataFrame(summary_data) == [columns |-> SummaryColumns, rows |-> summary_data]

\* No create_summary_report call has been made.
NoSummary == [columns |-> <<>>, rows |-> <<>>]

\* Variant that leaves the rows in the order of the list.
rows_as_listed(rows) == {rows}

\* df.sort_values('P_Value'): the rows ascending by P_Value.  The default
\* sort kind is not stable, so rows with equal P_Value may come out in any
\* order: the operator gives every arrangement the sort may produce.
sort_values(rows) ==
    { [k \in 1..Len(rows) |-> rows[perm[k]]] :
        perm \in { q \in Permutations(1..Len(rows)) :
                     \A a, b \in 1..Len(rows) :
                         a < b => rows[q[a]]["P_Value"]
                                    <= rows[q[b]]["P_Value"] } }

\* The tables create_summary_report may return.
create_summary_report(level, res, include_all) ==
    LET filtered_results ==
            IF include_all
            THEN res
            ELSE filter_cointegrated_pairs(level, res, NoThreshold)
        summary_data ==
            [k \in 1..Len(filtered_results) |-> SummaryRow(filtered_results[k])]
    IN  IF filtered_results = <<>>
        THEN {EmptyDataFrame}
        ELSE { DataFrame(rows) : rows \in sort_values(summary_data) }

Summarize(include_all) ==
    /\ pc = "done"
    /\ summary' \in create_summary_report(significance_level, result_list,
                                          include_all)
    /\ include_all_arg' = include_all
    /\ result_list' = IF include_all THEN result_list
                      ELSE ResultsAfterFilter(result_list)
    /\ pc' = "summarized"
    /\ UNCHANGED <<significance_level, test_level, price_data, pair_idx,
                   results, stdout, attempted, outcome, threshold_arg,
                   filtered, spread_arg, stats, print_args, printed>>
    /\ UNCHANGED batchVars
    /\ UNCHANGED dataVars

---------------------------------------------------------------------------
(* get_spread_statistics                                                   *)

\* A float of the returned dict: NaN, or sign * (num / den), or, for the
\* standard deviation and the z-score, sign * sqrt(num / den).
NaN == [nan |-> TRUE, sign |-> 0, num |-> 0, den |-> 1]

Sign(x) == IF x > 0 THEN 1 ELSE IF x < 0 THEN -1 ELSE 0

Abs(x) == IF x < 0 THEN -x ELSE x

Ratio(num, den) ==
    [nan |-> FALSE, sign |-> Sign(num), num |-> Abs(num), den |-> den]

Root(sign, num, den) ==
    [nan |-> FALSE, sign |-> sign, num |-> num, den |-> den]

\* spread_series as get_spread_statistics sees it: None, or the values in
\* index order with the positions that hold NaN.
NoSpreadSeries == [is_none |-> TRUE, values |-> <<>>, nan |-> {}]

SpreadSeries(values, nan) == [is_none |-> FALSE, values |-> values,
                              nan |-> nan]

\* spread_series.dropna(): the values that are not NaN, in order.
SpreadDropna(series) ==
    LET keep == (1..Len(series.values)) \ series.nan
        Kth(k) == CHOOSE i \in keep :
                      Cardinality({ j \in keep : j <= i }) = k
    IN  [k \in 1..Cardinality(keep) |-> series.values[Kth(k)]]

RECURSIVE Sum(_)
Sum(seq) == IF seq = <<>> THEN 0 ELSE seq[1] + Sum(Tail(seq))

Squares(seq) == [k \in 1..Len(seq) |-> seq[k] * seq[k]]

Least(seq) == CHOOSE x \in { seq[k] : k \in 1..Len(seq) } :
                  \A k \in 1..Len(seq) : x <= seq[k]

Greatest(seq) == CHOOSE x \in { seq[k] : k \in 1..Len(seq) } :
                     \A k \in 1..Len(seq) : x >= seq[k]

\* n * sum(x^2) - sum(x)^2: n * (n - 1) times the sample variance.
Scatter(seq) == Len(seq) * Sum(Squares(seq)) - Sum(seq) * Sum(seq)

\* Series.mean(): NaN for an empty series.
Mean(seq) == IF seq = <<>> THEN NaN ELSE Ratio(Sum(seq), Len(seq))

\* Series.std(): the sample standard deviation (ddof = 1), NaN for fewer
\* than two values.
Std(seq) ==
    IF Len(seq) < 2
    THEN NaN
    ELSE Root(Sign(Scatter(seq)), Scatter(seq), Len(seq) * (Len(seq) - 1))

\* (spread.iloc[-1] - spread.mean()) / spread.std(): a float division, so a
\* NaN or zero divisor gives NaN (0.0 / 0.0) and never an exception.
ZScore(seq) ==
    LET n == Len(seq)
        dev == n * seq[n] - Sum(seq)
    IN  IF Std(seq).nan \/ Std(seq).sign = 0
        THEN NaN
        ELSE Root(Sign(dev), dev * dev * (n - 1), n * Scatter(seq))

StatKeys == {"mean", "std", "min", "max", "current", "z_score"}

\* `return {}`.
EmptyDict == [k \in {} |-> NaN]

\* Variant that takes the first value of the spread as the current one.
get_spread_statistics_first(spread_series) ==
    IF spread_series.is_none
    THEN EmptyDict
    ELSE LET spread == SpreadDropna(spread_series)
         IN  [k \in StatKeys |->
                CASE k = "mean" -> Mean(spread)
                  [] k = "std" -> Std(spread)
                  [] k = "min" ->
                        IF spread = <<>> THEN NaN ELSE Ratio(Least(spread), 1)
                  [] k = "max" ->
                        IF spread = <<>> THEN NaN
                        ELSE Ratio(Greatest(spread), 1)
                  [] k = "current" ->
                        IF Len(spread) > 0 THEN Ratio(spread[1], 1)
                        ELSE NaN
                  [] k = "z_score" ->
                        IF Len(spread) > 0 THEN ZScore(spread) ELSE NaN]

get_spread_statistics(spread_series) ==
    IF spread_series.is_none
    THEN EmptyDict
    ELSE LET spread == SpreadDropna(spread_series)
         IN  [k \in StatKeys |->
                CASE k = "mean" -> Mean(spread)
                  [] k = "std" -> Std(spread)
                  [] k = "min" ->
                        IF spread = <<>> THEN NaN ELSE Ratio(Least(spread), 1)
                  [] k = "max" ->
                        IF spread = <<>> THEN NaN
                        ELSE Ratio(Greatest(spread), 1)
                  [] k = "current" ->
                        IF Len(spread) > 0 THEN Ratio(spread[Len(spread)], 1)
                        ELSE NaN
                  [] k = "z_score" ->
                        IF Len(spread) > 0 THEN ZScore(spread) ELSE NaN]

\* The result's spread after the call: dropna returns a new series.
SpreadAfterStatistics(spread_series) == spread_series

SpreadStatistics ==
    /\ pc = "done"
    /\ stats' = get_spread_statistics(spread_arg)
    /\ spread_arg' = SpreadAfterStatistics(spread_arg)
    /\ pc' = "stats"
    /\ UNCHANGED <<significance_level, test_level, price_data, pair_idx,
                   results, stdout, attempted, result_list, outcome,
                   threshold_arg, filtered, include_all_arg, summary,
                   print_args, printed>>
    /\ UNCHANGED batchVars
    /\ UNCHANGED dataVars

---------------------------------------------------------------------------
(* print_results                                                           *)

\* results[:max_pairs]
FirstN(seq, n) == SubSeq(seq, 1, IF n < Len(seq) THEN n ELSE Len(seq))

Line(kind, count) == [kind |-> kind, count |-> count, row |-> <<>>]

RowLine(result) ==
    [kind |-> "row", count |-> 0,
     row |-> <<result.symbol1, result.symbol2, result.p_value,
               result.hedge_ratio, result.is_cointegrated>>]

print_results(level, res, show_all, max_pairs) ==
    LET cointegrated == filter_cointegrated_pairs(level, res, NoThreshold)
        display_results == IF show_all THEN FirstN(res, max_pairs)
                           ELSE FirstN(cointegrated, max_pairs)
        title == IF show_all THEN Line("top", Len(display_results))
                 ELSE Line("found", Len(cointegrated))
    IN  IF display_results = <<>>
        THEN <<title, Line("none", 0)>>
        ELSE <<title, Line("columns", 0), Line("rule", 0)>>
                \o [k \in 1..Len(display_results) |->
                        RowLine(display_results[k])]
                \o ( IF Len(res) > max_pairs
                     THEN <<Line("more", Len(res) - max_pairs)>>
                     ELSE <<>> )

NoPrint == [show_all |-> FALSE, max_pairs |-> 0]

PrintResults(show_all, max_pairs) ==
    /\ pc = "done"
    /\ printed' = print_results(significance_level, result_list, show_all,
                                max_pairs)
    /\ print_args' = [show_all |-> show_all, max_pairs |-> max_pairs]
    /\ result_list' = IF show_all THEN result_list
                      ELSE ResultsAfterFilter(result_list)
    /\ pc' = "printed"
    /\ UNCHANGED <<significance_level, test_level, price_data, pair_idx,
                   results, stdout, attempted, outcome, threshold_arg,
                   filtered, include_all_arg, summary, spread_arg, stats>>
    /\ UNCHANGED batchVars
    /\ UNCHANGED dataVars

---------------------------------------------------------------------------
(* BinanceDataSource.fetch_klines (src/src/ibtest/data/binance.py)         *)

Times == 0..MaxTime

\* A kline as far as fetch_klines reads it: element 0 (open time) and
\* element 6 (close time); a kline of the model covers one millisecond.
Kline(t) == [open_time |-> t, close_time |-> t]

\* The non-empty lists of klines a response may hold: consecutive klines
\* from any time on, also one earlier than the startTime asked for.
Batches ==
    { [k \in 1..n |-> Kline(t + k - 1)] :
        t \in Times, n \in 1..MaxBatch }

\* What a request may give: an exception (from get, raise_for_status or
\* json), an empty list, or a batch.
Responses ==
    { [kind |-> "error", klines |-> <<>>], [kind |-> "empty", klines |-> <<>>] }
        \cup { [kind |-> "data", klines |-> b] : b \in Batches }

NoFetch == [start_ms |-> 0, end_ms |-> 0]

\* pd.DataFrame() of fetch_klines and get_aligned_prices: nothing in it.
NoKlines == [columns |-> <<>>, rows |-> <<>>]

\* The frame built from all_data: indexed by timestamp (the open time),
\* in the order of all_data.
KlinesFrame(data) ==
    [columns |-> <<"open", "high", "low", "close", "volume">>,
     rows |-> [k \in 1..Len(data) |-> data[k].open_time]]

\* Variant that takes the close time of the first kline of the batch.
NextStartFromFirst(data) == data[1].close_time + 1

\* current_start = data[-1][6] + 1
NextStart(data) == data[Len(data)].close_time + 1

\* Variant in which the exception of a request leaves fetch_klines.
RequestErrorRaised == "fetch_raised"

\* except Exception: print and break.
RequestErrorCaught == "broke"

FetchStart ==
    /\ pc = "idle"
    /\ \E start_ms \in Times, end_ms \in Times :
          /\ fetch_args' = [start_ms |-> start_ms, end_ms |-> end_ms]
          /\ current_start' = start_ms
    /\ all_data' = <<>>
    /\ requests' = <<>>
    /\ pc' = "fetching"
    /\ UNCHANGED <<klines_df, aligned_args, aligned_df, validate_args,
                   validated>>
    /\ UNCHANGED engineVars
    /\ UNCHANGED batchVars
    /\ UNCHANGED reportVars

\* One turn of the while loop; the model follows MaxRequests of them.
FetchRequest ==
    /\ pc = "fetching"
    /\ current_start < fetch_args.end_ms
    /\ Len(requests) < MaxRequests
    /\ \E response \in Responses :
          /\ requests' = Append(requests, [startTime |-> current_start,
                                           response |-> response])
          /\ CASE response.kind = "error" ->
                    /\ pc' = RequestErrorCaught
                    /\ UNCHANGED <<all_data, current_start>>
               [] response.kind = "empty" ->
                    /\ pc' = "broke"
                    /\ UNCHANGED <<all_data, current_start>>
               [] response.kind = "data" ->
                    /\ all_data' = all_data \o response.klines
                    /\ current_start' = NextStart(response.klines)
                    /\ pc' = "fetching"
    /\ UNCHANGED <<fetch_args, klines_df, aligned_args, aligned_df,
                   validate_args, validated>>
    /\ UNCHANGED engineVars
    /\ UNCHANGED batchVars
    /\ UNCHANGED reportVars

\* After the loop: an empty DataFrame, or the frame of all_data.
FetchReturn ==
    /\ \/ pc = "broke"
       \/ pc = "fetching" /\ ~(current_start < fetch_args.end_ms)
    /\ klines_df' = IF all_data = <<>> THEN NoKlines
                    ELSE KlinesFrame(all_data)
    /\ pc' = "fetched"
    /\ UNCHANGED <<fetch_args, current_start, all_data, requests,
                   aligned_args, aligned_df, validate_args, validated>>
    /\ UNCHANGED engineVars
    /\ UNCHANGED batchVars
    /\ UNCHANGED reportVars

---------------------------------------------------------------------------
(* BinanceDataSource.get_aligned_prices                                    *)

\* The symbols requested, in request order (not alphabetical).
RequestedSymbols == <<"ETHUSDT", "BTCUSDT">>

\* What fetch_klines gave for each requested symbol: the set of its
\* timestamps, empty when nothing was retrieved.
FetchedIndexes == [1..Len(RequestedSymbols) -> SUBSET Times]

FillMethods == {"ffill", "bfill", "interpolate", "none"}

\* fetch_multiple_symbols: the dict keeps the symbols with a non-empty
\* frame, in request order.
HasData(index) == index # {}

\* The rows of a column that hold a value once the missing ones are
\* filled: ffill carries the last value forward, bfill the next one
\* backward, interpolate fills between two values and after the last one;
\* any other fill_method fills nothing.
FilledRows(index, rows, fill_method) ==
    CASE fill_method \in {"ffill", "interpolate"} ->
            { r \in rows : \E q \in index : q <= r }
      [] fill_method = "bfill" ->
            { r \in rows : \E q \in index : q >= r }
      [] OTHER -> index

NoAligned == [columns |-> <<>>, index |-> {}]

get_aligned_prices(fetched, fill_method) ==
    LET kept == SelectSeq(fetched, HasData)
        names == [k \in 1..Len(kept) |->
                    RequestedSymbols[
                        CHOOSE i \in 1..Len(fetched) :
                            /\ HasData(fetched[i])
                            /\ Cardinality({ j \in 1..i :
                                               HasData(fetched[j]) }) = k]]
        union == UNION { kept[k] : k \in 1..Len(kept) }
    IN  IF kept = <<>>
        THEN NoAligned
        ELSE [columns |-> names,
              index |-> { r \in union :
                            \A k \in 1..Len(kept) :
                                r \in FilledRows(kept[k], union,
                                                 fill_method) }]

NoAlignedCall == [fetched |-> <<>>, fill_method |-> "none"]

GetAlignedPrices ==
    /\ pc = "idle"
    /\ \E fetched \in FetchedIndexes, fill_method \in FillMethods :
          /\ aligned_args' = [fetched |-> fetched,
                              fill_method |-> fill_method]
          /\ aligned_df' = get_aligned_prices(fetched, fill_method)
    /\ pc' = "aligned"
    /\ UNCHANGED <<fetch_args, current_start, all_data, requests, klines_df,
                   validate_args, validated>>
    /\ UNCHANGED engineVars
    /\ UNCHANGED batchVars
    /\ UNCHANGED reportVars

---------------------------------------------------------------------------
(* BinanceDataSource.validate_symbols                                      *)

KnownSymbols == {"BTCUSDT", "ETHUSDT", "ADAUSDT"}

\* exchange_info["symbols"]: for each symbol, the status it is listed
\* with, or "unlisted".
Listings == [KnownSymbols -> {"TRADING", "BREAK", "unlisted"}]

ExchangeResponses ==
    { [raises |-> FALSE, listing |-> l] : l \in Listings }
        \cup { [raises |-> TRUE,
                 listing |-> [n \in KnownSymbols |-> "unlisted"]] }

SymbolLists ==
    UNION { [1..n -> KnownSymbols] : n \in 0..MaxSymbols }

\* Variant of the invalid list: the symbols that are not listed at all.
InvalidIfUnlisted(symbols, listing) ==
    LET Unlisted(sym) == listing[sym] = "unlisted"
    IN  SelectSeq(symbols, Unlisted)

\* invalid_symbols = [s for s in symbols if s not in valid_symbols_set]
InvalidSymbols(symbols, listing) ==
    LET valid_symbols_set == { n \in KnownSymbols : listing[n] = "TRADING" }
        NotIn(sym) == sym \notin valid_symbols_set
    IN  SelectSeq(symbols, NotIn)

\* valid_symbols = [s for s in symbols if s in valid_symbols_set]
ValidSymbols(symbols, listing) ==
    LET valid_symbols_set == { n \in KnownSymbols : listing[n] = "TRADING" }
        In(sym) == sym \in valid_symbols_set
    IN  SelectSeq(symbols, In)

validate_symbols(symbols, response) ==
    IF response.raises
    THEN [valid |-> symbols, invalid |-> <<>>]
    ELSE [valid |-> ValidSymbols(symbols, response.listing),
          invalid |-> InvalidSymbols(symbols, response.listing)]

NoValidateCall ==
    [symbols |-> <<>>,
     response |-> [raises |-> TRUE,
                   listing |-> [n \in KnownSymbols |-> "unlisted"]]]

NoValidated == [valid |-> <<>>, invalid |-> <<>>]

ValidateSymbols ==
    /\ pc = "idle"
    /\ \E symbols \in SymbolLists, response \in ExchangeResponses :
          /\ validate_args' = [symbols |-> symbols, response |-> response]
          /\ validated' = validate_symbols(symbols, response)
    /\ pc' = "validated"
    /\ UNCHANGED <<fetch_args, current_start, all_data, requests, klines_df,
                   aligned_args, aligned_df>>
    /\ UNCHANGED engineVars
    /\ UNCHANGED batchVars
    /\ UNCHANGED reportVars

\* The data source before any call.
DataIdle ==
    /\ fetch_args = NoFetch
    /\ current_start = 0
    /\ all_data = <<>>
    /\ requests = <<>>
    /\ klines_df = NoKlines
    /\ aligned_args = NoAlignedCall
    /\ aligned_df = NoAligned
    /\ validate_args = NoValidateCall
    /\ validated = NoValidated

---------------------------------------------------------------------------
(* The specification of the engine.                                        *)

Init ==
    /\ significance_level \in SigLevels
    /\ test_level = significance_level
    /\ pc = "idle"
    /\ price_data = EmptyFrame
    /\ pair_idx = 1
    /\ results = <<>>
    /\ stdout = <<>>
    /\ attempted = <<>>
    /\ result_list = <<>>
    /\ outcome = NoCall
    /\ threshold_arg = NoThreshold
    /\ filtered = <<>>
    /\ min_observations = DefaultMinObservations
    /\ warnings = <<>>
    /\ given_data = EmptyFrame
    /\ earlier = NoEarlier
    /\ include_all_arg = FALSE
    /\ summary = NoSummary
    /\ spread_arg = NoSpreadSeries
    /\ stats = EmptyDict
    /\ print_args = NoPrint
    /\ printed = <<>>
    /\ DataIdle

Next ==
    \/ AnalyzeStart
    \/ AnalyzePair
    \/ AnalyzeReturn
    \/ TestPairDirect
    \/ TestStationarityDirect
    \/ SetSignificanceLevel
    \/ \E t \in Thresholds : FilterCall(t)

Spec == Init /\ [][Next]_vars

---------------------------------------------------------------------------
(* The data source.                                                        *)

NextData ==
    \/ FetchStart
    \/ FetchRequest
    \/ FetchReturn
    \/ GetAlignedPrices
    \/ ValidateSymbols

DataSpec == Init /\ [][NextData]_vars

---------------------------------------------------------------------------
(* analyze_pairs called twice on the same matrix, significance_level left  *)
(* as it is between the calls.                                             *)

NextRepeat ==
    \/ AnalyzeStart
    \/ AnalyzePair
    \/ AnalyzeReturn
    \/ AnalyzeAgain

RepeatSpec == Init /\ [][NextRepeat]_vars

---------------------------------------------------------------------------
(* The filter as a function of caller-built lists: every list of up to     *)
(* MaxList result objects, with any p-values and any stored flags.         *)

CallerResult(i, p, flag) ==
    CointegrationResult(SymbolNames[i], SymbolNames[i + 1], -i, p,
                        CritVals(<<-(i + 3), -(i + 2), -(i + 1)>>), flag, i,
                        NoSpread)

CallerLists ==
    UNION {
        { [i \in 1..n |-> CallerResult(i, ps[i], fs[i])] :
            ps \in [1..n -> PValues], fs \in [1..n -> BOOLEAN] }
        : n \in 0..MaxList }

InitFilter ==
    /\ significance_level \in SigLevels
    /\ test_level = significance_level
    /\ pc = "done"
    /\ price_data = EmptyFrame
    /\ pair_idx = 1
    /\ results = <<>>
    /\ stdout = <<>>
    /\ attempted = <<>>
    /\ result_list \in CallerLists
    /\ outcome = NoCall
    /\ threshold_arg = NoThreshold
    /\ filtered = <<>>
    /\ min_observations = DefaultMinObservations
    /\ warnings = <<>>
    /\ given_data = EmptyFrame
    /\ earlier = NoEarlier
    /\ include_all_arg = FALSE
    /\ summary = NoSummary
    /\ spread_arg = NoSpreadSeries
    /\ stats = EmptyDict
    /\ print_args = NoPrint
    /\ printed = <<>>
    /\ DataIdle

NextFilter == \E t \in Thresholds : FilterCall(t)

FilterSpec == InitFilter /\ [][NextFilter]_vars

---------------------------------------------------------------------------
(* The read-only operations on a list of results that were tested at the   *)
(* level test_level: filter, summary, spread statistics and printing,      *)
(* before and after significance_level is assigned another value.          *)

TestedLists(level) ==
    UNION {
        { [i \in 1..n |-> CallerResult(i, ps[i], ps[i] < level)] :
            ps \in [1..n -> PValues] }
        : n \in 0..MaxList }

\* The spread of the result handed to get_spread_statistics: none, or one
\* with a NaN inside.
ReportSpreads == {NoSpreadSeries, SpreadSeries(<<1, 0, 2>>, {2})}

MaxPairsArgs == 1..MaxList

InitReport ==
    /\ significance_level \in SigLevels
    /\ test_level = significance_level
    /\ pc = "done"
    /\ price_data = EmptyFrame
    /\ pair_idx = 1
    /\ result_list \in TestedLists(test_level)
    /\ results = result_list
    /\ stdout = <<>>
    /\ attempted = <<>>
    /\ outcome = NoCall
    /\ threshold_arg = NoThreshold
    /\ filtered = <<>>
    /\ min_observations = DefaultMinObservations
    /\ warnings = <<>>
    /\ given_data = EmptyFrame
    /\ earlier = NoEarlier
    /\ include_all_arg = FALSE
    /\ summary = NoSummary
    /\ spread_arg \in ReportSpreads
    /\ stats = EmptyDict
    /\ print_args = NoPrint
    /\ printed = <<>>
    /\ DataIdle

NextReport ==
    \/ SetSignificanceLevel
    \/ \E t \in Thresholds : FilterCall(t)
    \/ \E include_all \in BOOLEAN : Summarize(include_all)
    \/ SpreadStatistics
    \/ \E show_all \in BOOLEAN, max_pairs \in MaxPairsArgs :
          PrintResults(show_all, max_pairs)

ReportSpec == InitReport /\ [][NextReport]_vars

---------------------------------------------------------------------------
(* get_spread_statistics as a function of caller-built spreads: none, or   *)
(* up to MaxSpreadLen values, the last of which may be NaN.                *)

SpreadArgs ==
    {NoSpreadSeries}
        \cup UNION {
            { SpreadSeries(v, n) :
                v \in [1..len -> 0..MaxSpreadValue],
                n \in IF len = 0 THEN {{}} ELSE {{}, {len}} }
            : len \in 0..MaxSpreadLen }

InitStats ==
    /\ significance_level \in SigLevels
    /\ test_level = significance_level
    /\ pc = "done"
    /\ price_data = EmptyFrame
    /\ pair_idx = 1
    /\ result_list = <<>>
    /\ results = <<>>
    /\ stdout = <<>>
    /\ attempted = <<>>
    /\ outcome = NoCall
    /\ threshold_arg = NoThreshold
    /\ filtered = <<>>
    /\ min_observations = DefaultMinObservations
    /\ warnings = <<>>
    /\ given_data = EmptyFrame
    /\ earlier = NoEarlier
    /\ include_all_arg = FALSE
    /\ summary = NoSummary
    /\ spread_arg \in SpreadArgs
    /\ stats = EmptyDict
    /\ print_args = NoPrint
    /\ printed = <<>>
    /\ DataIdle

NextStats == SpreadStatistics

StatsSpec == InitStats /\ [][NextStats]_vars

---------------------------------------------------------------------------
(* Vocabulary of the properties.                                           *)

NumCols == Len(price_data.columns)

Choose2(n) == (n * (n - 1)) \div 2

\* The unordered column pairs by position, and their enumeration order.
PosPairs(n) == { pp \in (1..n) \X (1..n) : pp[1] < pp[2] }

LexLess(a, b) == a[1] < b[1] \/ (a[1] = b[1] /\ a[2] < b[2])

Rank(pp, n) == 1 + Cardinality({ q \in PosPairs(n) : LexLess(q, pp) })

\* Rows of the matrix in which both columns hold a value.
BothPresent(i, j) == Rows \ (price_data.nan[i] \cup price_data.nan[j])

PosOfPair(x) ==
    <<ColumnPos(price_data, x.symbol1), ColumnPos(price_data, x.symbol2)>>

NamesOf(seq) == [k \in 1..Len(seq) |-> <<seq[k].symbol1, seq[k].symbol2>>]

NotRaised(a) == ~a.raised

Succeeded == SelectSeq(attempted, NotRaised)

BackendRaised == \E k \in 1..Len(stdout) : stdout[k].reason = "backend"

AfterAnalyze == pc \in {"done", "filtered"}

\* Position of a result object in a list of distinct objects.
PosIn(list, r) ==
    CHOOSE i \in 1..Len(list) :
        list[i].symbol1 = r.symbol1 /\ list[i].symbol2 = r.symbol2

Ascending(seq) ==
    \A a, b \in 1..Len(seq) : a < b => seq[a].p_value <= seq[b].p_value

---------------------------------------------------------------------------
C2_EnumerationOrder ==
    /\ \A k \in 1..Len(attempted) :
          /\ PosOfPair(attempted[k]) \in PosPairs(NumCols)
          /\ Rank(PosOfPair(attempted[k]), NumCols) = k
    /\ AfterAnalyze => Len(attempted) = Choose2(NumCols)
    /\ NamesOf(results) = NamesOf(Succeeded)
    /\ \A k \in 1..Len(results) :
          /\ PosOfPair(results[k])[1] < PosOfPair(results[k])[2]
          /\ \A l \in 1..Len(results) :
                k < l => LexLess(PosOfPair(results[k]), PosOfPair(results[l]))
    /\ AfterAnalyze => result_list = results

C2_Witness ==
    /\ pc = "done"
    /\ NumCols = 3
    /\ NamesOf(result_list) = << <<"ETH", "BTC">>, <<"ETH", "SOL">>,
                                 <<"BTC", "SOL">> >>

\* C3: a failing pair never ends the batch: every later pair is still
\* attempted, earlier results are kept, and the returned list holds a result
\* for exactly the pairs whose own test succeeded (enough rows with both
\* values, and no exception from the backend).
C3_FailureIsolated ==
    /\ pc = "loop" => Len(attempted) = pair_idx - 1
    /\ pc \in {"loop", "done", "filtered"} =>
          Len(results) = Len(Succeeded)
    /\ AfterAnalyze =>
          /\ Len(attempted) = Choose2(NumCols)
          /\ \A pp \in PosPairs(NumCols) :
                LET a == attempted[Rank(pp, NumCols)]
                    has == \E k \in 1..Len(result_list) :
                              PosOfPair(result_list[k]) = pp
                IN  /\ has <=> ~a.raised
                    /\ Cardinality(BothPresent(pp[1], pp[2])) < MinObs
                          => ~has

C3_Witness ==
    /\ pc = "done"
    /\ NumCols = 3
    /\ attempted[1].raised
    /\ attempted[2].raised
    /\ ~attempted[3].raised
    /\ NamesOf(result_list) = << <<"BTC", "SOL">> >>

\* C4: with the results, the caller of analyze_pairs receives a list of the
\* skipped pairs, so that results + skipped pairs received = C(N,2).
C4_SkippedReported ==
    AfterAnalyze =>
        Len(result_list) + Len(SkippedGivenToCaller) = Choose2(NumCols)

PresentIn(series) == series.index \ series.nan

\* C5: a direct test_cointegration call raises the insufficient-data
\* ValueError if and only if fewer than MinObs rows hold a value of both
\* series; when it raises, the caller gets the error and no result.
C5_InsufficientIff ==
    pc = "single" =>
        ( ( /\ outcome.call.raised
            /\ outcome.call.error = "ValueError"
            /\ outcome.call.message = InsufficientMessage )
          <=> Cardinality(PresentIn(outcome.series1)
                            \cap PresentIn(outcome.series2)) < MinObs )

FlagMatches(r, level) == r.is_cointegrated <=> (r.p_value < level)

\* C6: every result carries is_cointegrated = (p_value < significance level
\* of the engine at the time of the test), the comparison being strict.
C6_FlagIsStrictComparison ==
    /\ \A k \in 1..Len(results) : FlagMatches(results[k], test_level)
    /\ AfterAnalyze =>
          \A k \in 1..Len(result_list) :
              FlagMatches(result_list[k], test_level)
    /\ (pc = "single" /\ ~outcome.call.raised) =>
          FlagMatches(outcome.call.value, significance_level)

C6_Witness ==
    /\ pc = "done"
    /\ \E k \in 1..Len(result_list) :
          /\ result_list[k].p_value = test_level
          /\ ~result_list[k].is_cointegrated
    /\ \E k \in 1..Len(result_list) :
          /\ result_list[k].p_value < test_level
          /\ result_list[k].is_cointegrated

\* C7: for every list and every threshold t given to the filter, the output
\* holds exactly the results with p_value < t, each once, ascending by
\* p_value.
C7_FilterExact ==
    (pc = "filtered" /\ ~threshold_arg.is_none) =>
        LET t == threshold_arg.value
        IN  /\ \A i \in 1..Len(result_list) :
                  (result_list[i].p_value < t) <=>
                      (\E k \in 1..Len(filtered) : filtered[k] = result_list[i])
            /\ Len(filtered) =
                  Cardinality({ i \in 1..Len(result_list) :
                                  result_list[i].p_value < t })
            /\ \A k \in 1..Len(filtered) :
                  \E i \in 1..Len(result_list) : filtered[k] = result_list[i]
            /\ Ascending(filtered)

WithFlags(list, flags) ==
    [i \in 1..Len(list) |-> [list[i] EXCEPT !.is_cointegrated = flags[i]]]

PositionsIn(list, out) == [k \in 1..Len(out) |-> PosIn(list, out[k])]

\* C8: the filter never reads the stored flag: any list that differs from
\* the input only in its is_cointegrated flags gives an output that selects
\* the same positions in the same order.
C8_FlagNeverRead ==
    pc = "filtered" =>
        \A flags \in [1..Len(result_list) -> BOOLEAN] :
            LET other == WithFlags(result_list, flags)
            IN  PositionsIn(other,
                    filter_cointegrated_pairs(significance_level, other,
                                              threshold_arg))
                = PositionsIn(result_list, filtered)

C8_Witness ==
    /\ pc = "filtered"
    /\ \E k \in 1..Len(filtered) : ~filtered[k].is_cointegrated
    /\ \E i \in 1..Len(result_list) :
          /\ result_list[i].is_cointegrated
          /\ \A k \in 1..Len(filtered) : filtered[k] # result_list[i]

\* C9: results with equal p_value keep their input order in the output.
C9_StableOrder ==
    pc = "filtered" =>
        \A a, b \in 1..Len(filtered) :
            (a < b /\ filtered[a].p_value = filtered[b].p_value) =>
                PosIn(result_list, filtered[a]) < PosIn(result_list, filtered[b])

C9_Witness ==
    /\ pc = "filtered"
    /\ Len(filtered) = 3
    /\ filtered[1].p_value < filtered[2].p_value
    /\ filtered[2].p_value = filtered[3].p_value
    /\ PosIn(result_list, filtered[1]) = 2

\* C10: the results of analyze_pairs, filtered by the same analyzer with no
\* threshold argument and an unchanged significance_level, give a subset of
\* the input in which every result has p_value < significance_level and
\* is_cointegrated = TRUE.
C10_DefaultFilterAgreesWithFlag ==
    ( /\ pc = "filtered"
      /\ threshold_arg.is_none
      /\ significance_level = test_level ) =>
        /\ Len(filtered) <= Len(result_list)
        /\ \A k \in 1..Len(filtered) :
              /\ \E i \in 1..Len(result_list) : filtered[k] = result_list[i]
              /\ filtered[k].p_value < significance_level
              /\ filtered[k].is_cointegrated

C10_Witness ==
    /\ pc = "filtered"
    /\ threshold_arg.is_none
    /\ significance_level = test_level
    /\ attempted # <<>>
    /\ filtered # <<>>
    /\ Len(filtered) < Len(result_list)

\* C11: filter, summary, spread statistics and printing only read their
\* input: the caller's list keeps its length, its order and every field of
\* every result, the spread handed to the statistics keeps its entries, and
\* each is_cointegrated still equals p_value < (the level at test time),
\* whatever threshold the filter was given and whatever significance_level
\* has been assigned since.
C11_InputsUntouched ==
    /\ result_list = results
    /\ \A k \in 1..Len(result_list) :
          FlagMatches(result_list[k], test_level)
    /\ spread_arg \in ReportSpreads

C11_Witness ==
    /\ pc = "filtered"
    /\ ~threshold_arg.is_none
    /\ threshold_arg.value # test_level
    /\ significance_level # test_level
    /\ Len(result_list) = 3
    /\ result_list[1].p_value > result_list[3].p_value
    /\ \E k \in 1..Len(filtered) : ~filtered[k].is_cointegrated

\* A summary row carries the fields of a result.
RowCarries(row, r) ==
    /\ row["Symbol1"] = r.symbol1
    /\ row["Symbol2"] = r.symbol2
    /\ row["P_Value"] = r.p_value
    /\ row["Cointegration_Stat"] = r.cointegration_stat
    /\ row["Hedge_Ratio"] = r.hedge_ratio
    /\ row["Is_Cointegrated"] = r.is_cointegrated
    /\ row["Critical_1%"] = r.critical_values["1%"]
    /\ row["Critical_5%"] = r.critical_values["5%"]
    /\ row["Critical_10%"] = r.critical_values["10%"]

\* C12: the summary has exactly one row per result when include_all is
\* true, and one row per result with p_value < significance_level when it
\* is false; the rows are ascending by P_Value and each carries the
\* symbols, p-value, statistic, hedge ratio, flag and three critical
\* values of its result.
C12_SummaryRows ==
    pc = "summarized" =>
        LET wanted == { i \in 1..Len(result_list) :
                          include_all_arg
                              \/ result_list[i].p_value < significance_level }
            rows == summary.rows
        IN  /\ Len(rows) = Cardinality(wanted)
            /\ \A i \in wanted :
                  Cardinality({ k \in 1..Len(rows) :
                                  RowCarries(rows[k], result_list[i]) }) = 1
            /\ \A k \in 1..Len(rows) :
                  \E i \in wanted : RowCarries(rows[k], result_list[i])
            /\ \A a, b \in 1..Len(rows) :
                  a < b => rows[a]["P_Value"] <= rows[b]["P_Value"]

C12_Witness ==
    /\ pc = "summarized"
    /\ include_all_arg
    /\ Len(result_list) = 3
    /\ Len(summary.rows) = 3
    /\ result_list[1].p_value > result_list[2].p_value
    /\ summary.rows[1]["Symbol1"] = result_list[2].symbol1
    /\ summary.rows[1]["P_Value"] < summary.rows[3]["P_Value"]

\* C13: a summary without rows (an empty input list, or include_all false
\* and no result below the level) still has the full column set.
C13_EmptySummaryHasColumns ==
    (pc = "summarized" /\ summary.rows = <<>>) =>
        summary.columns = SummaryColumns

\* C14: get_spread_statistics never returns a z_score that is NaN: for an
\* empty spread or a zero standard deviation it signals an error and
\* returns nothing.
C14_NoUndefinedZScore ==
    (pc = "stats" /\ ~spread_arg.is_none) =>
        /\ "z_score" \in DOMAIN stats => ~stats["z_score"].nan
        /\ (SpreadDropna(spread_arg) = <<>>
                \/ Scatter(SpreadDropna(spread_arg)) = 0)
              => DOMAIN stats = {}

C16_SpreadOverCommonRows ==
    /\ (pc = "single" /\ ~outcome.call.raised) =>
          /\ ~outcome.call.value.spread_series.is_none
          /\ outcome.call.value.spread_series.index
                = PresentIn(outcome.series1) \cap PresentIn(outcome.series2)
    /\ AfterAnalyze =>
          \A k \in 1..Len(result_list) :
              /\ ~result_list[k].spread_series.is_none
              /\ result_list[k].spread_series.index
                    = BothPresent(PosOfPair(result_list[k])[1],
                                  PosOfPair(result_list[k])[2])

\* C17: no result is ever returned, by test_cointegration or in the list of
\* analyze_pairs, for a pair with fewer than MinObs rows in which both
\* series hold a value; a column that is entirely missing is in no result,
\* and the pairs among the other columns are returned all the same.
C17_NoResultBelowFloor ==
    /\ (pc = "single" /\ ~outcome.call.raised) =>
          Cardinality(PresentIn(outcome.series1)
                        \cap PresentIn(outcome.series2)) >= MinObs
    /\ AfterAnalyze =>
          /\ \A k \in 1..Len(result_list) :
                Cardinality(BothPresent(PosOfPair(result_list[k])[1],
                                        PosOfPair(result_list[k])[2]))
                    >= MinObs
          /\ \A c \in 1..NumCols :
                price_data.nan[c] = Rows =>
                    \A k \in 1..Len(result_list) :
                        c \notin { PosOfPair(result_list[k])[1],
                                   PosOfPair(result_list[k])[2] }
          /\ ( /\ ~BackendRaised
               /\ \E c \in 1..NumCols :
                     /\ price_data.nan[c] = Rows
                     /\ \A d \in (1..NumCols) \ {c} :
                           price_data.nan[d] = {} )
                => Len(result_list) = Choose2(NumCols - 1)

\* C18: no engine exists whose significance_level lies outside the open
\* interval (0, 1); on the grid, 0 stands for 0.0, so every level is above
\* 0.
C18_LevelInsideUnitInterval ==
    0 < significance_level

SevenKeys ==
    {"symbol", "adf_statistic", "p_value", "critical_values",
     "is_stationary", "used_lag", "n_observations"}

\* C19: test_stationarity drops the missing values and raises its
\* insufficient-data error if and only if fewer than 10 observations
\* remain; otherwise it returns a result with the symbol, the statistic,
\* the critical values, the selected lag and the observation count, whose
\* is_stationary equals p_value < significance_level.
C19_StationarityFloor ==
    pc = "stationarity" =>
        LET remaining == Cardinality(PresentIn(outcome.series1))
            call == outcome.call
        IN  /\ ( /\ call.raised
                 /\ call.error = "ValueError"
                 /\ call.message = StationarityMessage )
                    <=> remaining < MinObsStationarity
            /\ ~call.raised =>
                  /\ DOMAIN call.value = SevenKeys
                  /\ call.value.symbol = outcome.symbol1
                  /\ call.value.is_stationary
                        <=> (call.value.p_value < significance_level)
                  /\ call.value.n_observations
                        = remaining - call.value.used_lag - 1

C19_Witness ==
    /\ pc = "stationarity"
    /\ outcome.call.raised
    /\ outcome.call.message = StationarityMessage
    /\ Cardinality(outcome.series1.index) = MinObsStationarity
    /\ Cardinality(PresentIn(outcome.series1)) = MinObsStationarity - 1

C21_NoSideEffects ==
    /\ pc \in {"loop", "done", "filtered"} => price_data = given_data
    /\ pc \in {"loop", "single"} => significance_level = test_level
    /\ pc = "single" =>
          /\ outcome.series1_after = outcome.series1
          /\ outcome.series2_after = outcome.series2

C21_Witness ==
    /\ pc = "done"
    /\ NumCols = 3
    /\ price_data.nan[1] = {}
    /\ price_data.nan[2] = {1}
    /\ price_data.nan[3] = {}
    /\ stdout # <<>>
    /\ NamesOf(result_list) = << <<"ETH", "SOL">> >>

---------------------------------------------------------------------------
(* The data source: what its methods return.                               *)

RECURSIVE OpenTimesOf(_)
\* The open times of the klines of the data responses, in arrival order.
OpenTimesOf(reqs) ==
    IF reqs = <<>>
    THEN <<>>
    ELSE LET klines == Head(reqs).response.klines
         IN  [k \in 1..Len(klines) |-> klines[k].open_time]
                \o OpenTimesOf(Tail(reqs))

\* C23: fetch_klines never raises on a failed request or an empty
\* response: when the first request fails or comes back empty it returns
\* the empty DataFrame, and when a later one does it stops and returns
\* the rows of the earlier batches, in order.
C23_FetchNeverRaises ==
    /\ pc # "fetch_raised"
    /\ pc = "fetched" =>
          /\ (requests # <<>> /\ requests[1].response.kind # "data")
                => klines_df = NoKlines
          /\ klines_df.rows = OpenTimesOf(requests)
          /\ \A k \in 1..Len(requests) :
                requests[k].response.kind # "data" => k = Len(requests)

C23_Witness ==
    /\ pc = "fetched"
    /\ Len(requests) = 3
    /\ requests[1].response.kind = "data"
    /\ requests[2].response.kind = "data"
    /\ requests[3].response.kind = "error"
    /\ Len(klines_df.rows) = 3

C23_WitnessFirstFails ==
    /\ pc = "fetched"
    /\ Len(requests) = 1
    /\ requests[1].response.kind = "error"
    /\ klines_df = NoKlines

\* The timestamps every fetched series has.
Overlap(fetched) ==
    { t \in Times : \A i \in 1..Len(fetched) :
                        HasData(fetched[i]) => t \in fetched[i] }

\* C24: get_aligned_prices returns only the overlapping timestamps: the
\* columns are the fetched symbols in request order, every row is a
\* timestamp that all fetched series have, and so there are at most as
\* many rows as the shortest fetched series has, whatever the fill_method
\* and the index sets.
C24_OnlyOverlappingTimestamps ==
    (pc = "aligned" /\ aligned_df # NoAligned) =>
        LET fetched == aligned_args.fetched
        IN  /\ aligned_df.columns
                 = SelectSeq([i \in 1..Len(fetched) |->
                                 IF HasData(fetched[i])
                                 THEN RequestedSymbols[i] ELSE "none"],
                             LAMBDA n : n # "none")
            /\ aligned_df.index \subseteq Overlap(fetched)
            /\ \A i \in 1..Len(fetched) :
                  HasData(fetched[i]) =>
                      Cardinality(aligned_df.index)
                          <= Cardinality(fetched[i])

\* How many times a symbol occurs in a list.
Occurrences(sym, list) == Cardinality({ k \in 1..Len(list) : list[k] = sym })

\* A list keeps the order of the list it was selected from.
IsSubsequence(part, whole) ==
    \E pos \in [1..Len(part) -> 1..Len(whole)] :
        /\ \A k \in 1..Len(part) : whole[pos[k]] = part[k]
        /\ \A j, k \in 1..Len(part) : j < k => pos[j] < pos[k]

\* C25: validate_symbols partitions its input: valid holds the symbols
\* listed with status TRADING, invalid all the others, each in input
\* order, and every input symbol is in exactly one of the two lists as
\* often as it was given; on an API error it returns all the input
\* symbols as valid and an empty invalid list.
C25_ValidatePartitions ==
    pc = "validated" =>
        LET symbols == validate_args.symbols
            response == validate_args.response
        IN  IF response.raises
            THEN validated.valid = symbols /\ validated.invalid = <<>>
            ELSE /\ \A k \in 1..Len(validated.valid) :
                        response.listing[validated.valid[k]] = "TRADING"
                 /\ \A k \in 1..Len(validated.invalid) :
                        response.listing[validated.invalid[k]] # "TRADING"
                 /\ IsSubsequence(validated.valid, symbols)
                 /\ IsSubsequence(validated.invalid, symbols)
                 /\ \A sym \in KnownSymbols :
                        Occurrences(sym, validated.valid)
                            + Occurrences(sym, validated.invalid)
                                = Occurrences(sym, symbols)

C25_Witness ==
    /\ pc = "validated"
    /\ ~validate_args.response.raises
    /\ validate_args.symbols = <<"ETHUSDT", "BTCUSDT">>
    /\ validate_args.response.listing["ETHUSDT"] = "BREAK"
    /\ validate_args.response.listing["BTCUSDT"] = "TRADING"
    /\ validated = [valid |-> <<"BTCUSDT">>, invalid |-> <<"ETHUSDT">>]

RECURSIVE KlinesOf(_)
\* The klines of the data responses, in arrival order.
KlinesOf(reqs) ==
    IF reqs = <<>>
    THEN <<>>
    ELSE Head(reqs).response.klines \o KlinesOf(Tail(reqs))

\* The close time of the last kline of a batch.
LastCloseTime(klines) == klines[Len(klines)].close_time

\* C26: the first request of fetch_klines has startTime = start_ms and
\* each following one the close time of the last kline of the previous
\* batch plus one; requests stop at the first empty response, the first
\* error, or when the next startTime would be >= end_ms; the batches are
\* appended in arrival order.
C26_Pagination ==
    /\ requests # <<>> => requests[1].startTime = fetch_args.start_ms
    /\ \A k \in 1..Len(requests) :
          /\ requests[k].startTime < fetch_args.end_ms
          /\ k < Len(requests) =>
                /\ requests[k].response.kind = "data"
                /\ requests[k + 1].startTime
                      = LastCloseTime(requests[k].response.klines) + 1
    /\ all_data = KlinesOf(requests)
    /\ pc = "fetched" =>
          IF requests = <<>>
          THEN fetch_args.start_ms >= fetch_args.end_ms
          ELSE LET last == requests[Len(requests)].response
               IN  \/ last.kind \in {"empty", "error"}
                   \/ LastCloseTime(last.klines) + 1 >= fetch_args.end_ms

C26_Witness ==
    /\ pc = "fetched"
    /\ fetch_args = [start_ms |-> 0, end_ms |-> 3]
    /\ Len(requests) = 2
    /\ requests[1].response.kind = "data"
    /\ Len(requests[1].response.klines) = 2
    /\ requests[2].startTime = 2
    /\ requests[2].response.kind = "data"
    /\ LastCloseTime(requests[2].response.klines) = 2
    /\ Len(all_data) = 3

\* C27: fetch_klines terminates for every sequence of server responses:
\* the startTime of successive requests is strictly increasing, so at
\* most end_ms - start_ms requests are issued.
C27_StartTimeStrictlyIncreasing ==
    /\ \A k \in 1..Len(requests) :
          k < Len(requests) =>
              requests[k].startTime < requests[k + 1].startTime
    /\ requests # <<>> =>
          Len(requests) <= fetch_args.end_ms - fetch_args.start_ms

---------------------------------------------------------------------------
(* The filter's threshold, the names of a direct test, the printed rows.   *)

\* C28: a p_value_threshold passed explicitly is the threshold the filter
\* applies, for every value including 0 (no p_value is below 0, so the
\* output is empty); significance_level is applied only when the argument
\* is None.
C28_ExplicitThresholdApplied ==
    pc = "filtered" =>
        LET applied == IF threshold_arg.is_none
                       THEN significance_level
                       ELSE threshold_arg.value
        IN  /\ \A k \in 1..Len(filtered) : filtered[k].p_value < applied
            /\ \A i \in 1..Len(result_list) :
                  result_list[i].p_value < applied =>
                      \E k \in 1..Len(filtered) : filtered[k] = result_list[i]
            /\ (~threshold_arg.is_none /\ threshold_arg.value = 0) =>
                  filtered = <<>>

\* C29: test_cointegration aligns and tests the two series it is given
\* whatever names are passed, equal names included: the aligned rows are
\* exactly the row labels at which both series1 and series2 hold a value,
\* the dependent series of the test is series1 and the regressor is
\* series2.
C29_NamesDoNotMatter ==
    pc = "single" =>
        /\ outcome.aligned_data
              = PresentIn(outcome.series1) \cap PresentIn(outcome.series2)
        /\ outcome.y1 = outcome.series1
        /\ outcome.y2 = outcome.series2

\* The number of pairs of the set print_results displays from: the whole
\* list with show_all, otherwise the results whose p_value is below the
\* significance level.
DisplayedSetSize ==
    IF print_args.show_all
    THEN Len(result_list)
    ELSE Cardinality({ i \in 1..Len(result_list) :
                         result_list[i].p_value < significance_level })

\* C30: print_results shows at most max_pairs rows, and prints the line
\* "... and N more pairs" if and only if pairs of the displayed set were
\* cut off, N being the number of pairs of that set not shown; with
\* show_all false that is the number of cointegrated pairs minus
\* max_pairs.
C30_MoreLineCountsHiddenPairs ==
    pc = "printed" =>
        LET rows == { k \in 1..Len(printed) : printed[k].kind = "row" }
            more == { k \in 1..Len(printed) : printed[k].kind = "more" }
        IN  /\ Cardinality(rows) <= print_args.max_pairs
            /\ (more # {}) <=> (DisplayedSetSize > print_args.max_pairs)
            /\ \A k \in more :
                  printed[k].count = DisplayedSetSize - print_args.max_pairs

====
